---- MODULE Spec2Model ----
\* A model of flutter_auto_reload (src/src/main.rs): the supervisor of the
\* `flutter run` child (FlutterRunner), the two producers (the notify watcher
\* and the keyboard thread), their two mpsc channels and main's event loop.
EXTENDS Integers, Sequences, FiniteSets, TLC

\* ------------------------------------------------------------------ bounds
MaxTime == 2        \* the clock stops advancing here
MaxDebounce == 1    \* --debounce is drawn from 0..MaxDebounce
MaxProduced == 3    \* messages the two producers send in one run, in total

\* ReloadBytes without the newline.
ReloadBytesNoNewline == <<114>>

\* ------------------------------------------------------------- input sets
\* b"r\n" (main.rs:97): the bytes 'r' and '\n'.
ReloadBytes == <<114, 10>>

\* Bytes the terminal can deliver: 'r' and '\n', the two bytes of the reload
\* sequence, typed by hand.
KeyBytes == {114, 10}

\* A path is modelled by what Path::extension() returns for it: an extension,
\* or "none" when the path has no extension.
\* The path lists an event can carry: none, a .dart file, and a file that is
\* not .dart (without an extension, or .md) followed by a .dart file.
PathLists == {<<>>, <<"dart">>, <<"none", "dart">>, <<"md", "dart">>}

\* What the notification subsystem sends on file_tx: Ok(event) or Err(_).
WatchResults ==
    {[ok |-> TRUE, paths |-> p] : p \in PathLists} \cup {[ok |-> FALSE, paths |-> <<>>]}

VARIABLES
    pc,               \* main's position, "exited" once the process is gone
    exit,             \* why the process ended ("none" while it runs)
    pubspec,          \* whether <project_path>/pubspec.yaml exists
    now,              \* the monotonic clock read by Instant::now()
    debounce_duration,\* Duration::from_millis(args.debounce)
    last_reload,      \* FlutterRunner.last_reload
    child,            \* "none", "alive" or "dead": the spawned flutter process
    spawns,           \* number of children spawned
    kills,            \* number of kill() calls made by Drop
    watching,         \* watcher.watch() has succeeded
    kbd,              \* the keyboard thread has been spawned
    file_q,           \* the channel file_tx -> file_rx
    input_q,          \* the channel input_tx -> input_rx
    produced,         \* number of messages sent on either channel so far
    mark,             \* `produced` as it was at this iteration's file_rx.try_recv(); 0 between iterations
    keysRead,         \* the bytes read_exact() has returned, in order
    childStdin,       \* what was written to the child's stdin, in order
    reqLog,           \* one entry per handle_command(Reload): time and outcome
    droppedDart,      \* the filter has dropped an event that carries a .dart path
    notices,          \* "Change detected" lines printed
    errLines          \* lines printed on standard error by eprintln! (main.rs:136)

vars == <<pc, exit, pubspec, now, debounce_duration, last_reload, child, spawns,
          kills, watching, kbd, file_q, input_q, produced, mark, keysRead,
          childStdin, reqLog, droppedDart, notices, errLines>>

\* ---------------------------------------------------------- pure helpers
\* DebouncePassed with the comparison off by one tick.
DebouncePassedEarly(t, last, d) == t - last + 1 >= d

\* DebouncePassed with a strict comparison.
DebouncePassedStrict(t, last, d) == t - last > d

\* main.rs:94: now.duration_since(self.last_reload) >= self.debounce_duration
DebouncePassed(t, last, d) == t - last >= d

\* main.rs:85: the clock of the model starts when the supervisor is built, so
\* Instant::now() in FlutterRunner::new reads 0.
ConstructionTime == 0

\* main.rs:85: last_reload starts as the instant of construction.
InitialLastReload(t) == t

\* Qualifies looking at every path of the event instead of the first.
QualifiesAnyPath(r) ==
    /\ r.ok
    /\ \E i \in 1..Len(r.paths) : r.paths[i] = "dart"

\* Qualifies without the comparison of the extension with "dart".
QualifiesAnyExtension(r) == r.ok /\ Len(r.paths) > 0 /\ r.paths[1] # "none"

\* main.rs:182-185: Ok(event), a first path, an extension, and it is "dart".
Qualifies(r) ==
    /\ r.ok
    /\ Len(r.paths) > 0
    /\ r.paths[1] # "none"
    /\ r.paths[1] = "dart"

\* A write to the child's stdin pipe succeeds while the child holds its end.
WriteOk(c) == c = "alive"

\* The entries a write of the bytes bs appends to the child's stdin.
Written(bs, src, sq, mk) ==
    [i \in 1..Len(bs) |-> [b |-> bs[i], src |-> src, seq |-> sq, mark |-> mk]]

\* HandleReload without the update of last_reload after a dispatch.
HandleReloadNoUpdate(t, last, d, c, out, n, sq, mk) ==
    IF t - last >= d
    THEN IF c = "alive"
         THEN [ok |-> TRUE, res |-> "sent", last |-> last,
               out |-> out \o Written(ReloadBytes, "reload", sq, mk), notices |-> n + 1]
         ELSE [ok |-> FALSE, res |-> "failed", last |-> last,
               out |-> out, notices |-> n + 1]
    ELSE [ok |-> TRUE, res |-> "suppressed", last |-> last,
          out |-> out, notices |-> n]

\* HandleReload with last_reload updated before the write instead of after it.
HandleReloadUpdateFirst(t, last, d, c, out, n, sq, mk) ==
    IF t - last >= d
    THEN IF c = "alive"
         THEN [ok |-> TRUE, res |-> "sent", last |-> t,
               out |-> out \o Written(ReloadBytes, "reload", sq, mk), notices |-> n + 1]
         ELSE [ok |-> FALSE, res |-> "failed", last |-> t,
               out |-> out, notices |-> n + 1]
    ELSE [ok |-> TRUE, res |-> "suppressed", last |-> last,
          out |-> out, notices |-> n]

\* main.rs:92-102: handle_command(Reload). The result is the supervisor's new
\* state and whether the call returned Ok.
HandleReload(t, last, d, c, out, n, sq, mk) ==
    IF DebouncePassed(t, last, d)
    THEN IF WriteOk(c)
         THEN [ok |-> TRUE, res |-> "sent", last |-> t,
               out |-> out \o Written(ReloadBytes, "reload", sq, mk), notices |-> n + 1]
         ELSE [ok |-> FALSE, res |-> "failed", last |-> last,
               out |-> out, notices |-> n + 1]
    ELSE [ok |-> TRUE, res |-> "suppressed", last |-> last,
          out |-> out, notices |-> n]

\* HandleKeyInput coalescing a byte equal to the key byte written just before.
HandleKeyInputCoalesce(key, last, c, out, sq, mk) ==
    IF c = "alive"
    THEN IF out # <<>> /\ out[Len(out)].src = "key" /\ out[Len(out)].b = key
         THEN [ok |-> TRUE, last |-> last, out |-> out]
         ELSE [ok |-> TRUE, last |-> last, out |-> out \o Written(<<key>>, "key", sq, mk)]
    ELSE [ok |-> FALSE, last |-> last, out |-> out]

\* HandleKeyInput ignoring the error of a failed write.
HandleKeyInputSwallow(key, last, c, out, sq, mk) ==
    IF c = "alive"
    THEN [ok |-> TRUE, last |-> last, out |-> out \o Written(<<key>>, "key", sq, mk)]
    ELSE [ok |-> TRUE, last |-> last, out |-> out]

\* HandleKeyInput taking a typed 'r' for a reload of its own: it stamps
\* last_reload with the current instant.
HandleKeyInputAsReload(key, last, c, out, sq, mk) ==
    IF c = "alive"
    THEN [ok |-> TRUE, last |-> IF key = 114 THEN now ELSE last,
          out |-> out \o Written(<<key>>, "key", sq, mk)]
    ELSE [ok |-> FALSE, last |-> last, out |-> out]

\* main.rs:103-108: handle_command(KeyInput(key)).
HandleKeyInput(key, last, c, out, sq, mk) ==
    IF WriteOk(c)
    THEN [ok |-> TRUE, last |-> last, out |-> out \o Written(<<key>>, "key", sq, mk)]
    ELSE [ok |-> FALSE, last |-> last, out |-> out]

\* main.rs:114-118: Drop sends the kill; its error is swallowed.
DropKills(k) == k + 1
DropChild(c) == IF c = "alive" THEN "dead" ELSE c

\* ------------------------------------------------------------------- Init
Init ==
    /\ pc = "check"
    /\ exit = "none"
    /\ pubspec \in BOOLEAN
    /\ now = 0
    /\ debounce_duration \in 0..MaxDebounce
    /\ last_reload = 0
    /\ child = "none"
    /\ spawns = 0
    /\ kills = 0
    /\ watching = FALSE
    /\ kbd = FALSE
    /\ file_q = <<>>
    /\ input_q = <<>>
    /\ produced = 0
    /\ mark = 0
    /\ keysRead = <<>>
    /\ childStdin = <<>>
    /\ reqLog = <<>>
    /\ droppedDart = FALSE
    /\ notices = 0
    /\ errLines = 0

Running == pc # "exited"

\* ---------------------------------------------------------------- startup
\* CheckPubspec printing the diagnostic and going on instead of exiting.
CheckPubspecGoesOn ==
    /\ pc = "check"
    /\ pc' = "spawn"
    /\ errLines' = IF pubspec THEN errLines ELSE errLines + 1
    /\ UNCHANGED <<exit, pubspec, now, debounce_duration, last_reload, child, spawns,
                   kills, watching, kbd, file_q, input_q, produced, mark, keysRead,
                   childStdin, reqLog, droppedDart, notices>>

\* main.rs:134-138: the manifest check.
CheckPubspec ==
    /\ pc = "check"
    /\ IF pubspec
       THEN /\ pc' = "spawn"
            /\ UNCHANGED <<exit, errLines>>
       ELSE /\ pc' = "exited"
            /\ exit' = "exit1"
            /\ errLines' = errLines + 1
    /\ UNCHANGED <<pubspec, now, debounce_duration, last_reload, child, spawns, kills,
                   watching, kbd, file_q, input_q, produced, mark, keysRead,
                   childStdin, reqLog, droppedDart, notices>>

\* main.rs:152 and 56-88: FlutterRunner::new; `?` returns the spawn error.
SpawnChild ==
    /\ pc = "spawn"
    /\ \E ok \in BOOLEAN :
         IF ok
         THEN /\ pc' = "watcher_new"
              /\ child' = "alive"
              /\ spawns' = spawns + 1
              /\ last_reload' = InitialLastReload(now)
              /\ UNCHANGED exit
         ELSE /\ pc' = "exited"
              /\ exit' = "spawn_error"
              /\ UNCHANGED <<child, spawns, last_reload>>
    /\ UNCHANGED <<pubspec, now, debounce_duration, kills, watching, kbd, file_q,
                   input_q, produced, mark, keysRead, childStdin, reqLog, droppedDart, notices,
                   errLines>>

\* A panic unwinds main: the FlutterRunner is dropped, then the process ends.
Panic ==
    /\ pc' = "exited"
    /\ exit' = "panic"
    /\ kills' = DropKills(kills)
    /\ child' = DropChild(child)

\* main.rs:156-160: RecommendedWatcher::new(..).unwrap()
CreateWatcher ==
    /\ pc = "watcher_new"
    /\ \E ok \in BOOLEAN :
         IF ok
         THEN /\ pc' = "watch"
              /\ UNCHANGED <<exit, kills, child>>
         ELSE Panic
    /\ UNCHANGED <<pubspec, now, debounce_duration, last_reload, spawns, watching,
                   kbd, file_q, input_q, produced, mark, keysRead, childStdin,
                   reqLog, droppedDart, notices, errLines>>

\* main.rs:166-168: watcher.watch(..).unwrap()
Subscribe ==
    /\ pc = "watch"
    /\ \E ok \in BOOLEAN :
         IF ok
         THEN /\ pc' = "spawn_kbd"
              /\ watching' = TRUE
              /\ UNCHANGED <<exit, kills, child>>
         ELSE /\ Panic
              /\ UNCHANGED watching
    /\ UNCHANGED <<pubspec, now, debounce_duration, last_reload, spawns, kbd, file_q,
                   input_q, produced, mark, keysRead, childStdin, reqLog, droppedDart, notices,
                   errLines>>

\* main.rs:174-176: the keyboard thread starts; main enters the loop.
SpawnKeyboard ==
    /\ pc = "spawn_kbd"
    /\ pc' = "file"
    /\ kbd' = TRUE
    /\ UNCHANGED <<exit, pubspec, now, debounce_duration, last_reload, child, spawns,
                   kills, watching, file_q, input_q, produced, mark, keysRead,
                   childStdin, reqLog, droppedDart, notices, errLines>>

\* -------------------------------------------------------------- producers
\* The notification subsystem sends one result on file_tx (main.rs:155-168).
WatcherSend ==
    /\ Running
    /\ watching
    /\ produced < MaxProduced
    /\ \E r \in WatchResults :
         file_q' = Append(file_q, [seq |-> produced + 1, msg |-> r])
    /\ produced' = produced + 1
    /\ UNCHANGED <<pc, exit, pubspec, now, debounce_duration, last_reload, child,
                   spawns, kills, watching, kbd, input_q, mark, keysRead,
                   childStdin, reqLog, droppedDart, notices, errLines>>

\* main.rs:120-129: handle_keyboard_input reads one byte and sends it. A failed
\* read sends nothing and changes nothing, so it is no step of the model.
KeyboardRead ==
    /\ Running
    /\ kbd
    /\ produced < MaxProduced
    /\ \E b \in KeyBytes :
         /\ keysRead' = Append(keysRead, b)
         /\ input_q' = Append(input_q, [seq |-> produced + 1, key |-> b])
    /\ produced' = produced + 1
    /\ UNCHANGED <<pc, exit, pubspec, now, debounce_duration, last_reload, child,
                   spawns, kills, watching, kbd, file_q, mark, childStdin, reqLog, droppedDart,
                   notices, errLines>>

\* ------------------------------------------------------------ event loop
\* Once the process is gone so are its channels and the loop's locals.
ProcessGone ==
    /\ file_q' = <<>>
    /\ input_q' = <<>>
    /\ mark' = 0

\* ErrorReturn starting the child again instead of leaving main.
ErrorReturnRestarts ==
    /\ pc' = "file"
    /\ exit' = exit
    /\ kills' = DropKills(kills)
    /\ child' = "alive"
    /\ UNCHANGED <<file_q, input_q, mark>>

\* An Err from handle_command leaves main through `?`: the FlutterRunner is
\* dropped (the kill is sent) and the process ends with the error.
ErrorReturn ==
    /\ pc' = "exited"
    /\ exit' = "io_error"
    /\ kills' = DropKills(kills)
    /\ child' = DropChild(child)
    /\ ProcessGone

\* FileReceived looking at the watcher's queue only when no key is waiting.
FileReceivedIdle == file_q # <<>> /\ input_q = <<>>

\* main.rs:181: file_rx.try_recv() returns a result iff one is queued.
FileReceived == file_q # <<>>

\* main.rs:181-191: the filter on what try_recv returned (`got`), and the
\* dispatch of Reload for a result that passes it.
FileStep(got) ==
    /\ pc = "file"
    /\ IF ~got
       THEN /\ pc' = "key"
            /\ mark' = produced
            /\ UNCHANGED <<exit, kills, child, last_reload, childStdin, reqLog,
                           droppedDart, notices, file_q, input_q>>
       ELSE IF ~Qualifies(Head(file_q).msg)
       THEN /\ pc' = "key"
            /\ mark' = produced
            /\ file_q' = Tail(file_q)
            /\ droppedDart' = (droppedDart \/ \E i \in 1..Len(Head(file_q).msg.paths) :
                                                Head(file_q).msg.paths[i] = "dart")
            /\ UNCHANGED <<exit, kills, child, last_reload, childStdin, reqLog,
                           notices, input_q>>
       ELSE LET r == HandleReload(now, last_reload, debounce_duration, child,
                                  childStdin, notices, Head(file_q).seq, produced)
            IN  /\ last_reload' = r.last
                /\ childStdin' = r.out
                /\ notices' = r.notices
                /\ reqLog' = Append(reqLog, [t |-> now, res |-> r.res,
                                             seq |-> Head(file_q).seq,
                                             last |-> last_reload])
                /\ UNCHANGED droppedDart
                /\ IF r.ok
                   THEN /\ pc' = "key"
                        /\ mark' = produced
                        /\ file_q' = Tail(file_q)
                        /\ UNCHANGED <<exit, kills, child, input_q>>
                   ELSE ErrorReturn
    /\ UNCHANGED <<pubspec, now, debounce_duration, spawns, watching, kbd,
                   produced, keysRead, errLines>>

\* PollFile giving way to the keyboard: the watcher's queue is left alone
\* while a key is waiting.
PollFileKeysFirst == FileStep(FileReceived /\ input_q = <<>>)

PollFile == FileStep(FileReceived)

\* main.rs:194-199: one try_recv on input_rx, then the 10 ms sleep that ends
\* the iteration.
PollKey ==
    /\ pc = "key"
    /\ IF input_q = <<>>
       THEN /\ pc' = "file"
            /\ mark' = 0
            /\ UNCHANGED <<exit, kills, child, last_reload, childStdin, input_q,
                           file_q>>
       ELSE LET r == HandleKeyInput(Head(input_q).key, last_reload, child,
                                    childStdin, Head(input_q).seq, mark)
            IN  /\ last_reload' = r.last
                /\ childStdin' = r.out
                /\ IF r.ok
                   THEN /\ pc' = "file"
                        /\ mark' = 0
                        /\ input_q' = Tail(input_q)
                        /\ UNCHANGED <<exit, kills, child, file_q>>
                   ELSE ErrorReturn
    /\ UNCHANGED <<pubspec, now, debounce_duration, spawns, watching, kbd,
                   produced, keysRead, reqLog, droppedDart, notices, errLines>>

\* ------------------------------------------------------------ environment
\* The monotonic clock advances; it is read from the supervisor's
\* construction on (main.rs:85, 93).
Tick ==
    /\ Running
    /\ child # "none"
    /\ now < MaxTime
    /\ now' = now + 1
    /\ UNCHANGED <<pc, exit, pubspec, debounce_duration, last_reload, child, spawns,
                   kills, watching, kbd, file_q, input_q, produced, mark, keysRead,
                   childStdin, reqLog, droppedDart, notices, errLines>>

\* The child exits on its own; its end of the stdin pipe closes.
ChildExits ==
    /\ Running
    /\ child = "alive"
    /\ child' = "dead"
    /\ UNCHANGED <<pc, exit, pubspec, now, debounce_duration, last_reload, spawns,
                   kills, watching, kbd, file_q, input_q, produced, mark, keysRead,
                   childStdin, reqLog, droppedDart, notices, errLines>>

\* A termination signal reaches the tool. main installs no handler, so the
\* process ends at once and no destructor runs.
Signal ==
    /\ Running
    /\ pc' = "exited"
    /\ exit' = "signal"
    /\ ProcessGone
    /\ UNCHANGED <<pubspec, now, debounce_duration, last_reload, child, spawns,
                   kills, watching, kbd, produced, keysRead, childStdin, reqLog,
                   droppedDart, notices, errLines>>

Next ==
    \/ CheckPubspec
    \/ SpawnChild
    \/ CreateWatcher
    \/ Subscribe
    \/ SpawnKeyboard
    \/ WatcherSend
    \/ KeyboardRead
    \/ PollFile
    \/ PollKey
    \/ Tick
    \/ ChildExits
    \/ Signal

Spec == Init /\ [][Next]_vars

\* =================================================================
\* Derived views of the state, used by the properties below.

Sent(i) == reqLog[i].res = "sent"

\* The positions of childStdin written by key inputs, and their bytes.
KeyEntries == SelectSeq(childStdin, LAMBDA e : e.src = "key")
KeysWritten == [i \in 1..Len(KeyEntries) |-> KeyEntries[i].b]
KeysQueued == [i \in 1..Len(input_q) |-> input_q[i].key]
ReloadEntries == SelectSeq(childStdin, LAMBDA e : e.src = "reload")

\* main takes its next step (rather than being ended by a signal).
MainSteps == pc' # pc /\ exit' # "signal"

IsPrefix(a, b) == Len(a) <= Len(b) /\ SubSeq(b, 1, Len(a)) = a

\* -----------------------------------------------------------------
\* C1 (Debounce): any two reloads that were dispatched (r\n written) are at
\* least debounce_duration apart, the dispatch time being the instant
\* handle_command read for the debounce test.
C1_Debounce ==
    \A i, j \in 1..Len(reqLog) :
        (i < j /\ Sent(i) /\ Sent(j)) =>
            reqLog[j].t - reqLog[i].t >= debounce_duration

\* Two reloads were dispatched under a debounce of at least one tick.
C1_Witness ==
    /\ debounce_duration >= 1
    /\ \E i, j \in 1..Len(reqLog) : i < j /\ Sent(i) /\ Sent(j)

\* -----------------------------------------------------------------
\* C2 (Key pass-through): the bytes on the child's stdin, without those the
\* reload path wrote, are a prefix of the bytes the keyboard thread read, in
\* the same order; while the tool runs, every byte read is either written
\* or still queued, so none is dropped, debounced or coalesced.
C2_KeyPassThrough ==
    /\ IsPrefix(KeysWritten, keysRead)
    /\ Running => KeysWritten \o KeysQueued = keysRead

\* A key byte 'r' was written straight after a reload's r\n, at the instant
\* of that reload and inside its debounce window, after an earlier key.
C2_Witness ==
    /\ debounce_duration >= 1
    /\ now = last_reload
    /\ Len(childStdin) = 4
    /\ childStdin[1].src = "key"
    /\ childStdin[2].src = "reload"
    /\ childStdin[3].src = "reload"
    /\ childStdin[4].src = "key"
    /\ childStdin[4].b = 114

\* -----------------------------------------------------------------
\* C3 (Hot reload on save): every .dart notification handled with a live child
\* has exactly one r\n within one debounce window of it: the one it triggers,
\* or the one dispatched less than debounce_duration before it.
Covers(j, k) ==
    /\ j <= k
    /\ Sent(j)
    /\ (j = k \/ reqLog[k].t - reqLog[j].t < debounce_duration)

C3_HotReloadOnSave ==
    \A k \in 1..Len(reqLog) :
        reqLog[k].res # "failed" =>
            Cardinality({j \in 1..Len(reqLog) : Covers(j, k)}) = 1

\* -----------------------------------------------------------------
\* C4 (Cleanup): once the tool has exited after spawning the child, a kill has
\* been sent to the child.
C4_Cleanup == (pc = "exited" /\ spawns > 0) => kills >= 1

\* -----------------------------------------------------------------
\* C5 (Extension filter): the step that takes from the watcher's queue an
\* event with no paths, or whose first path has no extension or another
\* extension than dart, writes nothing to the child, leaves last_reload alone
\* and keeps the tool running, whatever the event's later paths are.
NotDartFirst(m) == m.ok /\ (m.paths = <<>> \/ m.paths[1] # "dart")

C5_ExtensionFilter ==
    [][(/\ pc = "file"
        /\ file_q # <<>>
        /\ NotDartFirst(Head(file_q).msg)
        /\ MainSteps)
        => (/\ file_q' = Tail(file_q)
            /\ childStdin' = childStdin
            /\ last_reload' = last_reload
            /\ notices' = notices
            /\ pc' = "key")]_vars

\* An event whose first path is not a .dart file and whose second is one was
\* taken and dropped although a reload would have passed the debounce.
C5_Witness ==
    /\ droppedDart
    /\ debounce_duration = 0
    /\ child = "alive"
    /\ Running
    /\ file_q = <<>>
    /\ childStdin = <<>>

\* -----------------------------------------------------------------
\* Reload requests i..j that all fall within one debounce window, none of
\* them ended by a write error.
Window(i, j) ==
    /\ i < j
    /\ reqLog[j].t - reqLog[i].t < debounce_duration
    /\ \A k \in i..j : reqLog[k].res # "failed"

SentIn(i, j) == Cardinality({k \in i..j : Sent(k)})

C7_FirstReload ==
    (Len(reqLog) >= 1 /\ reqLog[1].res # "failed") => Sent(1)

\* -----------------------------------------------------------------
\* The number of results the watcher has sent: every message counted by
\* `produced` that is not a key.
WatcherSent == produced - Len(keysRead)

\* The watcher has sent a single request, the keyboard thread sent a key
\* after it, and both reached the child: the key at i, the reload at j.
RequestThenKey(i, j) ==
    /\ WatcherSent = 1
    /\ childStdin[i].src = "key"
    /\ childStdin[j].src = "reload"
    /\ childStdin[j].seq < childStdin[i].seq

\* C8 as claimed (Cross-stream order): the r\n of a single request comes
\* before the byte of a key produced after it, for every interleaving.
C8_ReloadThenKey ==
    \A i, j \in 1..Len(childStdin) : RequestThenKey(i, j) => j < i

\* C8 as amended: the key's byte comes before the r\n only when the request
\* was sent after the loop had polled the watcher's queue in the iteration
\* that took the key.
C8_CrossStreamOrder ==
    \A i, j \in 1..Len(childStdin) :
        (RequestThenKey(i, j) /\ i < j) => childStdin[j].seq > childStdin[i].mark

\* The request was sent before the key, and the key was written first.
C8_Witness ==
    \E i, j \in 1..Len(childStdin) : RequestThenKey(i, j) /\ i < j

\* -----------------------------------------------------------------
\* The steps in which a dispatch meets a failing write: a key taken, or a
\* .dart event taken that passes the debounce, while the child is gone.
KeyWriteFails ==
    /\ pc = "key"
    /\ input_q # <<>>
    /\ child # "alive"
    /\ MainSteps

ReloadWriteFails ==
    /\ pc = "file"
    /\ file_q # <<>>
    /\ Head(file_q).msg.ok
    /\ Head(file_q).msg.paths # <<>>
    /\ Head(file_q).msg.paths[1] = "dart"
    /\ now - last_reload >= debounce_duration
    /\ child # "alive"
    /\ MainSteps

\* C9 (Write failure is fatal): a dispatch whose write fails ends the tool in
\* the same step, with nothing written and the kill sent; after the exit
\* nothing more is written.
C9_WriteFailureFatal ==
    [][/\ (KeyWriteFails \/ ReloadWriteFails)
            => (/\ pc' = "exited"
                /\ exit' = "io_error"
                /\ kills' = kills + 1
                /\ childStdin' = childStdin)
       /\ pc = "exited" => (pc' = "exited" /\ childStdin' = childStdin)]_vars

\* The tool has exited on a write error with the kill sent, and a key that
\* was read did not reach the child.
C9_Witness ==
    /\ pc = "exited"
    /\ exit = "io_error"
    /\ kills = 1
    /\ child = "dead"
    /\ Len(keysRead) > Len(KeysWritten)

\* -----------------------------------------------------------------
\* C10 (Watcher failure is absorbed): no failure of the notification
\* subsystem, at creation, at subscription or delivered as an error, ends
\* the tool.
C10_WatcherFailureAbsorbed == ~(pc = "exited" /\ exit = "panic")

\* -----------------------------------------------------------------
\* C11 (Missing manifest): without pubspec.yaml no child is spawned, no
\* watcher and no keyboard thread is started and nothing is written; the tool,
\* unless a signal ends it first, exits with code 1 after exactly one
\* diagnostic line on standard error.
C11_MissingManifest ==
    ~pubspec =>
        /\ spawns = 0
        /\ child = "none"
        /\ ~watching
        /\ ~kbd
        /\ childStdin = <<>>
        /\ pc \in {"check", "exited"}
        /\ (pc = "exited" /\ exit # "signal") => (exit = "exit1" /\ errLines = 1)
        /\ pc = "check" => errLines = 0

\* The tool has exited with code 1 on the missing manifest.
C11_Witness ==
    /\ ~pubspec
    /\ pc = "exited"
    /\ exit = "exit1"
    /\ errLines = 1
    /\ spawns = 0

\* -----------------------------------------------------------------
\* C12 (Child uniqueness): the tool spawns at most one child in a run; a
\* child comes alive only by that one spawn, and once it is dead (it exited,
\* or was killed after a write error) no child is alive again.
C12_ChildUniqueness ==
    /\ [](spawns <= 1 /\ (child = "none" <=> spawns = 0))
    /\ [][/\ child = "dead" => child' = "dead"
          /\ (child' = "alive" /\ child # "alive")
                => (pc = "spawn" /\ spawns = 0 /\ spawns' = 1)]_vars

\* The tool has ended on a write error; its one child is dead.
C12_Witness ==
    /\ pc = "exited"
    /\ exit = "io_error"
    /\ spawns = 1
    /\ child = "dead"

\* -----------------------------------------------------------------
\* The instant last_reload holds when request k is handled, by the rule of
\* the claim: the time of the latest reload dispatched before it, or the
\* supervisor's construction time when there is none.
PrevDispatch(k) ==
    LET S == {j \in 1..(k - 1) : Sent(j)}
    IN  IF S = {}
        THEN ConstructionTime
        ELSE reqLog[CHOOSE j \in S : \A i \in S : i <= j].t

\* C13 (Reload decision rule): a Reload whose write does not fail writes r\n
\* iff the time elapsed since the previous dispatched reload (since the
\* construction, for the first) is at least debounce_duration.
C13_DecisionRule ==
    \A k \in 1..Len(reqLog) :
        reqLog[k].res # "failed" =>
            (Sent(k) <=> reqLog[k].t - PrevDispatch(k) >= debounce_duration)

\* The first request after start-up was suppressed, and a later request was
\* dispatched exactly debounce_duration after the construction.
C13_Witness ==
    /\ debounce_duration >= 1
    /\ Len(reqLog) >= 2
    /\ reqLog[1].res = "suppressed"
    /\ \E k \in 2..Len(reqLog) :
          Sent(k) /\ reqLog[k].t = ConstructionTime + debounce_duration

\* -----------------------------------------------------------------
\* main handles a Reload in this step: the request log grows by one entry.
ReloadHandled == Len(reqLog') = Len(reqLog) + 1

\* C14 (last_reload): last_reload never decreases, and it changes only in a
\* step that handled a Reload and wrote r\n; a Reload that was suppressed or
\* whose write failed leaves it unchanged.
C14_LastReloadMonotone ==
    [][/\ last_reload' >= last_reload
       /\ last_reload' # last_reload
            => (/\ ReloadHandled
                /\ reqLog'[Len(reqLog')].res = "sent"
                /\ last_reload' = now
                /\ Len(childStdin') = Len(childStdin) + 2)
       /\ (ReloadHandled /\ reqLog'[Len(reqLog')].res # "sent")
            => (last_reload' = last_reload /\ childStdin' = childStdin)]_vars

\* last_reload has moved to the time of a dispatched reload, a later request
\* was suppressed, and the clock has gone on since.
C14_Witness ==
    /\ last_reload > ConstructionTime
    /\ now > last_reload
    /\ \E i, j \in 1..Len(reqLog) :
          /\ i < j
          /\ Sent(i)
          /\ reqLog[i].t = last_reload
          /\ reqLog[j].res = "suppressed"

\* -----------------------------------------------------------------
\* C15 (Loop bias): an iteration is one poll of the watcher's queue, taking at
\* most one event and writing no key, and then one poll of the keyboard's
\* queue, taking at most one byte and handling no reload; an event pending at
\* the first poll is taken by it, so when both queues hold something the
\* watcher's event is handled before the iteration's key byte is written.
C15_LoopBias ==
    [][/\ (pc = "file" /\ MainSteps) =>
            /\ pc' \in {"key", "exited"}
            /\ KeysWritten' = KeysWritten
            /\ Len(reqLog') <= Len(reqLog) + 1
            /\ pc' = "key" =>
                  /\ input_q' = input_q
                  /\ file_q' = IF file_q = <<>> THEN file_q ELSE Tail(file_q)
       /\ (pc = "key" /\ MainSteps) =>
            /\ pc' \in {"file", "exited"}
            /\ reqLog' = reqLog
            /\ ReloadEntries' = ReloadEntries
            /\ Len(childStdin') <= Len(childStdin) + 1
            /\ pc' = "file" =>
                  /\ file_q' = file_q
                  /\ input_q' = IF input_q = <<>> THEN input_q ELSE Tail(input_q)
                  /\ Len(KeysWritten') = Len(KeysWritten)
                        + (IF input_q = <<>> THEN 0 ELSE 1)]_vars

\* Both queues held something when an iteration began: the reload of the
\* watcher's event was written first, the key byte after it, and the
\* iteration is over.
C15_Witness ==
    /\ pc = "file"
    /\ Len(childStdin) = 3
    /\ childStdin[1].src = "reload"
    /\ childStdin[2].src = "reload"
    /\ childStdin[3].src = "key"
    /\ childStdin[1].seq <= childStdin[1].mark
    /\ childStdin[3].seq <= childStdin[1].mark
    /\ childStdin[3].mark = childStdin[1].mark

\* -----------------------------------------------------------------
\* C16 (Dispatch atomicity): the child's stdin changes only in a step of the
\* event loop, which appends to it; every r of the reload path is directly
\* followed by the \n of the same reload and every such \n directly preceded
\* by its r, so no key byte stands between them.
C16_DispatchAtomicity ==
    /\ [](\A i \in 1..Len(childStdin) :
            childStdin[i].src = "reload" =>
                IF childStdin[i].b = 114
                THEN /\ i < Len(childStdin)
                     /\ childStdin[i + 1].src = "reload"
                     /\ childStdin[i + 1].b = 10
                     /\ childStdin[i + 1].seq = childStdin[i].seq
                ELSE /\ childStdin[i].b = 10
                     /\ i > 1
                     /\ childStdin[i - 1].src = "reload"
                     /\ childStdin[i - 1].b = 114)
    /\ [][childStdin' # childStdin =>
            /\ pc \in {"file", "key"}
            /\ MainSteps
            /\ IsPrefix(childStdin, childStdin')]_vars

\* A reload's r\n stands between two typed bytes, the first of them an 'r'
\* and the second a newline.
C16_Witness ==
    \E i \in 1..Len(childStdin) :
        /\ i + 3 <= Len(childStdin)
        /\ childStdin[i].src = "key"
        /\ childStdin[i].b = 114
        /\ childStdin[i + 1].src = "reload"
        /\ childStdin[i + 2].src = "reload"
        /\ childStdin[i + 3].src = "key"
        /\ childStdin[i + 3].b = 10

\* -----------------------------------------------------------------
\* C17 (Notice ordering): at every point the notices printed are no more than
\* the reload sequences written to the child's stdin.
C17_NoticeAfterWrite == 2 * notices <= Len(ReloadEntries)

\* -----------------------------------------------------------------
\* main.rs:179-200: the event loop is the main thread's `loop`, which sleeps
\* 10 ms and goes round again; a scheduled loop does not stay at either poll
\* for ever.
LiveSpec == Spec /\ WF_vars(PollFile) /\ WF_vars(PollKey)

\* C18 (Key liveness): under LiveSpec, once the keyboard thread has read n
\* bytes, n key bytes are eventually on the child's stdin, unless the tool
\* has ended (a write failed, or a signal came) before.
C18_KeyLiveness ==
    \A n \in 1..MaxProduced :
        (Len(keysRead) >= n) ~> (Len(KeysWritten) >= n \/ pc = "exited")

\* Every byte read has been written while a watcher event was still waiting
\* in its queue and another had been handled.
C18_Witness ==
    /\ pc \in {"file", "key"}
    /\ Len(keysRead) >= 1
    /\ Len(KeysWritten) = Len(keysRead)
    /\ file_q # <<>>
    /\ Len(reqLog) >= 1

\* -----------------------------------------------------------------
\* C19 (KeyInput frame): the step that forwards a key byte, 'r' and newline
\* included, leaves last_reload, the debounce interval, the request log and
\* the notices as they were; so the last_reload every Reload is tested
\* against is the time of the reload dispatched before it (the construction
\* time when there is none), whatever was typed in between.
C19_KeyInputFrame ==
    /\ [](\A k \in 1..Len(reqLog) : reqLog[k].last = PrevDispatch(k))
    /\ [][(pc = "key" /\ MainSteps) =>
            /\ last_reload' = last_reload
            /\ debounce_duration' = debounce_duration
            /\ reqLog' = reqLog
            /\ notices' = notices]_vars

\* An 'r' and a newline were typed and forwarded, and the watcher's reload
\* after them was dispatched exactly debounce_duration after the construction.
C19_Witness ==
    /\ debounce_duration >= 1
    /\ Len(childStdin) = 4
    /\ childStdin[1].src = "key"
    /\ childStdin[1].b = 114
    /\ childStdin[2].src = "key"
    /\ childStdin[2].b = 10
    /\ childStdin[3].src = "reload"
    /\ Len(reqLog) = 1
    /\ Sent(1)
    /\ reqLog[1].t = ConstructionTime + debounce_duration

\* -----------------------------------------------------------------
\* C20 (No deferred reload): the reload path writes only in the step that
\* takes from the watcher's queue a notification whose first path ends in
\* .dart, one r\n for that notification and with the debounce passed at that
\* instant; the reload sequences written are as many as the requests logged
\* as sent, and no request that was suppressed, or whose write failed, has an
\* r\n of its own on the child's stdin.
C20_NoDeferredReload ==
    /\ [](/\ Len(ReloadEntries) = 2 * SentIn(1, Len(reqLog))
          /\ \A k \in 1..Len(reqLog) :
                ~Sent(k) => \A i \in 1..Len(ReloadEntries) :
                                ReloadEntries[i].seq # reqLog[k].seq)
    /\ [][ReloadEntries' # ReloadEntries =>
            /\ pc = "file"
            /\ file_q # <<>>
            /\ Head(file_q).msg.ok
            /\ Len(Head(file_q).msg.paths) > 0
            /\ Head(file_q).msg.paths[1] = "dart"
            /\ file_q' = Tail(file_q)
            /\ now - last_reload >= debounce_duration
            /\ Len(ReloadEntries') = Len(ReloadEntries) + 2
            /\ SubSeq(ReloadEntries', 1, Len(ReloadEntries)) = ReloadEntries
            /\ ReloadEntries'[Len(ReloadEntries')].seq = Head(file_q).seq]_vars

\* A request was suppressed, a full debounce interval has gone by since, the
\* watcher's queue is empty and the tool still runs: nothing was written.
C20_Witness ==
    /\ debounce_duration >= 1
    /\ pc \in {"file", "key"}
    /\ file_q = <<>>
    /\ ReloadEntries = <<>>
    /\ \E k \in 1..Len(reqLog) :
          /\ reqLog[k].res = "suppressed"
          /\ now >= reqLog[k].t + debounce_duration

====
